---- MODULE Spec2Model ----
(***************************************************************************)
(* State-machine model of examples/bbr-tests/bulk.cc (ns-3.27): the        *)
(* dumbbell experiment harness.  main() is one sequential program; every   *)
(* statement group of main() is one action and pc is the position in       *)
(* main().  The flow pattern, the bdp multiplier and the bandwidth come    *)
(* from the command line; the RTT list and the packet size are fixed in    *)
(* the source.                                                             *)
(***************************************************************************)
EXTENDS Integers, Sequences, FiniteSets, TLC

VARIABLES
  pc,               \* position in main()
  status,           \* "running", "crashed" (signal), "aborted" (fatal), "exit0"
  flows,            \* std::string flows, as a sequence of characters
  bdpNum,           \* double bdp, as the numerator of a fraction over BdpDen
  bandwidth,        \* int bandwidth
  maxRtt,           \* int maxRtt
  queueSizeBytes,   \* int queueSizeBytes
  queueSizePackets, \* int queueSizePackets
  nSender,          \* int nSender
  flow_infos,       \* std::vector<flow_info>
  i,                \* the loop counter of the current for loop
  defaults,         \* the attribute defaults set through Config::SetDefault
  nodes,            \* the nodes created so far
  p2p,              \* the attributes held by the PointToPointHelper
  links,            \* the installed point-to-point links, in install order
  stacks,           \* node -> socket type of the installed internet stack
  ipv4Base,         \* the base network of the Ipv4AddressHelper
  allocated,        \* the subnets assigned so far, in assignment order
  apps,             \* the bulk-send / packet-sink pairs installed so far
  totalRx,          \* total bytes received by each sink after the run
  outputFile        \* std::ofstream outputFile

vars == <<pc, status, flows, bdpNum, bandwidth, maxRtt, queueSizeBytes,
          queueSizePackets, nSender, flow_infos, i, defaults, nodes, p2p,
          links, stacks, ipv4Base, allocated, apps, totalRx, outputFile>>

----------------------------------------------------------------------------
\* Bounds of the model.

\* longest flow pattern enumerated exhaustively
MaxFlows == 4

\* length of the one long flow pattern (more flows than a third octet holds)
LongLen == 258

\* bdp is a double; the model holds it as bdpNum / BdpDen
BdpDen == 4

----------------------------------------------------------------------------
\* Constants of the program.

R_TO_R_DELAY == 1

S_TO_R_BW == 1000

START_TIME == 0

STOP_TIME == 120

PACKET_SIZE == 1000

packetSize == 1000

DefaultBdp == 2

DefaultBandwidth == 20

mtu == 2000

QueueMaxPackets == 1

port == 911

rtts == <<20, 50, 80>>

DefaultFlows == <<"B", "C", "B", "C", "B", "C">>

----------------------------------------------------------------------------
\* Inputs.

Tokens == {"B", "C", "X"}

ShortFlows == UNION {[1..n -> Tokens] : n \in 1..MaxFlows}

LongFlows == [k \in 1..LongLen |-> IF k % 2 = 1 THEN "B" ELSE "C"]

BdpArgs == {1, DefaultBdp * BdpDen}

BandwidthArgs == {0, 3, DefaultBandwidth}

\* what the command line can set: flows, bdp, bandwidth (absent = default)
ParseArgs ==
  ((ShortFlows \cup {DefaultFlows}) \X BdpArgs \X BandwidthArgs)
    \cup {<<LongFlows, DefaultBdp * BdpDen, DefaultBandwidth>>}

\* values an out-of-bounds read or a division by zero may leave in an int
UBValues == {1, 33}

\* bytes a sink may have received at the end of the run
RxValues == {0, 15000000}

----------------------------------------------------------------------------
\* Pure helpers of main().

RECURSIVE MaxElement(_)
MaxElement(s) ==
  IF Len(s) = 1 THEN s[1]
  ELSE LET m == MaxElement(Tail(s)) IN IF s[1] < m THEN m ELSE s[1]

QueueSizeBytes_PreParse(b, w, m) ==
  (DefaultBdp * BdpDen * DefaultBandwidth * m * 1000) \div (8 * BdpDen)

\* int queueSizeBytes = bdp * bandwidth * maxRtt * 1000 / 8: a double
\* expression truncated to int (operands are non-negative here)
QueueSizeBytes(b, w, m) ==
  (b * w * m * 1000) \div (8 * BdpDen)

QueueSizePackets(bytes) == bytes \div packetSize

\* flows[i] == 'B' ? BBR : CUBIC
MapToken(c) == IF c = "B" THEN "BBR" ELSE "CUBIC"

\* nSender / rtts.size()
GroupSize(n) == n \div Len(rtts)

SocketTypeFor_AlwaysBbr(prot) == "ns3::TcpBbr"

\* the switch over flow_infos[i].prot
SocketTypeFor(prot) ==
  IF prot = "BBR" THEN "ns3::TcpBbr" ELSE "ns3::TcpCubic"

Create_OneLess(kind, n) == {<<kind, k>> : k \in 0..(n - 2)}

\* NodeContainer::Create(n)
Create(kind, n) == {<<kind, k>> : k \in 0..(n - 1)}

\* p2p.Install(a, b): a link carrying the helper's current attributes
P2PInstall(h, a, b) ==
  [a |-> a, b |-> b, dataRate |-> h.dataRate, delay |-> h.delay,
   mtu |-> h.mtu, queueMax |-> h.queueMax, subnet |-> <<>>, qdisc |-> -1]

\* the links of flow k in install order (1-based index into links)
LeftLink(k) == 2 * k + 2

RightLink(k) == 2 * k + 3

\* "10.1." + std::to_string(i) + ".0"
LeftAddr(k) == <<10, 1, k, 0>>

\* "192.168." + std::to_string(i) + ".0"
RightAddr(k) == <<192, 168, k, 0>>

\* tput = GetTotalRx() / (STOP_TIME - START_TIME) * 8 / 1000000.0, held in
\* bit/s (that is Mb/s times 10^6)
Throughput(rx) == (rx * 8) \div (STOP_TIME - START_TIME)

----------------------------------------------------------------------------
\* The simulator library, as far as main() depends on it.

\* InternetStackHelper::Install: the stack created on a node takes the
\* socket type that is the default at the moment of the call
InternetInstall(st, ns, d) ==
  [n \in (DOMAIN st) \cup ns |-> IF n \in ns THEN d.SocketType ELSE st[n]]

\* Ipv4Address(const char*): each dotted field is held in 8 bits
Ipv4Parse(a) == [k \in 1..4 |-> a[k] % 256]

AllocatedSubnets == {allocated[k].subnet : k \in 1..Len(allocated)}

\* Ipv4AddressHelper::Assign on the two devices of link l: the link gets
\* the helper's base network, and each device a default queue disc whose
\* limit is the PfifoFastQueueDisc::Limit default
Ipv4Assign(ls, l, base, d) ==
  [ls EXCEPT ![l].subnet = base, ![l].qdisc = d.PfifoLimit]

----------------------------------------------------------------------------
Init ==
  /\ pc = "parse"
  /\ status = "running"
  /\ flows = DefaultFlows
  /\ bdpNum = DefaultBdp * BdpDen
  /\ bandwidth = DefaultBandwidth
  /\ maxRtt = MaxElement(rtts)
  /\ queueSizeBytes = 0
  /\ queueSizePackets = 0
  /\ nSender = 0
  /\ flow_infos = <<>>
  /\ i = 0
  /\ defaults = [PfifoLimit |-> -1, SegmentSize |-> -1, DelAckCount |-> -1,
                 SocketType |-> "library default"]
  /\ nodes = {}
  /\ p2p = [dataRate |-> -1, delay |-> -1, mtu |-> -1, queueMax |-> -1]
  /\ links = <<>>
  /\ stacks = <<>>
  /\ ipv4Base = <<>>
  /\ allocated = <<>>
  /\ apps = <<>>
  /\ totalRx = <<>>
  /\ outputFile = [open |-> FALSE, content |-> <<>>]

\* cmd.Parse(argc, argv)
Parse ==
  /\ pc = "parse" /\ status = "running"
  /\ \E a \in ParseArgs :
       /\ flows' = a[1]
       /\ bdpNum' = a[2]
       /\ bandwidth' = a[3]
  /\ pc' = "queue"
  /\ UNCHANGED <<status, maxRtt, queueSizeBytes, queueSizePackets, nSender,
                 flow_infos, i, defaults, nodes, p2p, links, stacks,
                 ipv4Base, allocated, apps, totalRx, outputFile>>

\* queue sizing, nSender and the zero-initialised flow_infos vector
ComputeQueue ==
  /\ pc = "queue" /\ status = "running"
  /\ queueSizeBytes' = QueueSizeBytes(bdpNum, bandwidth, maxRtt)
  /\ queueSizePackets' = QueueSizePackets(queueSizeBytes')
  /\ nSender' = Len(flows)
  /\ flow_infos' = [k \in 1..Len(flows) |-> [prot |-> "BBR", rtt |-> 0]]
  /\ i' = 0
  /\ pc' = "derive"
  /\ UNCHANGED <<status, flows, bdpNum, bandwidth, maxRtt, defaults, nodes,
                 p2p, links, stacks, ipv4Base, allocated, apps, totalRx,
                 outputFile>>

\* the index expression of the loop body is defined
DeriveDefined ==
  /\ GroupSize(nSender) > 0
  /\ i \div GroupSize(nSender) < Len(rtts)

\* one iteration of the flow_infos loop, index in range
DeriveFlow ==
  /\ pc = "derive" /\ status = "running" /\ i < nSender
  /\ DeriveDefined
  /\ flow_infos' = [flow_infos EXCEPT ![i + 1] =
        [prot |-> MapToken(flows[i + 1]),
         rtt |-> rtts[(i \div GroupSize(nSender)) + 1]]]
  /\ i' = IF i + 1 < nSender THEN i + 1 ELSE 0
  /\ pc' = IF i + 1 < nSender THEN "derive" ELSE "config"
  /\ UNCHANGED <<status, flows, bdpNum, bandwidth, maxRtt, queueSizeBytes,
                 queueSizePackets, nSender, defaults, nodes, p2p, links,
                 stacks, ipv4Base, allocated, apps, totalRx, outputFile>>

\* one iteration whose index expression divides by zero or reads past the
\* end of rtts: the process is killed
DeriveFlowCrash ==
  /\ pc = "derive" /\ status = "running" /\ i < nSender
  /\ ~DeriveDefined
  /\ status' = "crashed"
  /\ UNCHANGED <<pc, flows, bdpNum, bandwidth, maxRtt, queueSizeBytes,
                 queueSizePackets, nSender, flow_infos, i, defaults, nodes,
                 p2p, links, stacks, ipv4Base, allocated, apps, totalRx,
                 outputFile>>

\* the same iteration when the process survives: rtt is whatever was read
DeriveFlowGarbage ==
  /\ pc = "derive" /\ status = "running" /\ i < nSender
  /\ ~DeriveDefined
  /\ \E r \in UBValues :
       flow_infos' = [flow_infos EXCEPT ![i + 1] =
          [prot |-> MapToken(flows[i + 1]), rtt |-> r]]
  /\ i' = IF i + 1 < nSender THEN i + 1 ELSE 0
  /\ pc' = IF i + 1 < nSender THEN "derive" ELSE "config"
  /\ UNCHANGED <<status, flows, bdpNum, bandwidth, maxRtt, queueSizeBytes,
                 queueSizePackets, nSender, defaults, nodes, p2p, links,
                 stacks, ipv4Base, allocated, apps, totalRx, outputFile>>

\* the three Config::SetDefault calls before node creation
ConfigDefaults ==
  /\ pc = "config" /\ status = "running"
  /\ defaults' = [defaults EXCEPT !.PfifoLimit = queueSizePackets,
                                  !.SegmentSize = packetSize,
                                  !.DelAckCount = 0]
  /\ pc' = "nodes"
  /\ UNCHANGED <<status, flows, bdpNum, bandwidth, maxRtt, queueSizeBytes,
                 queueSizePackets, nSender, flow_infos, i, nodes, p2p, links,
                 stacks, ipv4Base, allocated, apps, totalRx, outputFile>>

\* routerNodes.Create(2), senderNodes.Create(nSender), receiverNodes.Create(nSender)
CreateNodes ==
  /\ pc = "nodes" /\ status = "running"
  /\ nodes' = Create("router", 2) \cup Create("sender", nSender)
                \cup Create("receiver", nSender)
  /\ pc' = "r2r"
  /\ UNCHANGED <<status, flows, bdpNum, bandwidth, maxRtt, queueSizeBytes,
                 queueSizePackets, nSender, flow_infos, i, defaults, p2p,
                 links, stacks, ipv4Base, allocated, apps, totalRx,
                 outputFile>>

\* the router-to-router link
InstallRouterLink ==
  /\ pc = "r2r" /\ status = "running"
  /\ p2p' = [dataRate |-> bandwidth, delay |-> R_TO_R_DELAY, mtu |-> mtu,
             queueMax |-> QueueMaxPackets]
  /\ links' = <<P2PInstall(p2p', <<"router", 0>>, <<"router", 1>>)>>
  /\ i' = 0
  /\ pc' = "access"
  /\ UNCHANGED <<status, flows, bdpNum, bandwidth, maxRtt, queueSizeBytes,
                 queueSizePackets, nSender, flow_infos, defaults, nodes,
                 stacks, ipv4Base, allocated, apps, totalRx, outputFile>>

\* one iteration of the access-link loop
InstallAccessLinks ==
  /\ pc = "access" /\ status = "running" /\ i < nSender
  /\ p2p' = [p2p EXCEPT !.dataRate = S_TO_R_BW,
                        !.delay = flow_infos[i + 1].rtt \div 2,
                        !.mtu = mtu]
  /\ links' = links \o <<P2PInstall(p2p', <<"sender", i>>, <<"router", 0>>),
                         P2PInstall(p2p', <<"router", 1>>, <<"receiver", i>>)>>
  /\ i' = IF i + 1 < nSender THEN i + 1 ELSE 0
  /\ pc' = IF i + 1 < nSender THEN "access" ELSE "stackRouters"
  /\ UNCHANGED <<status, flows, bdpNum, bandwidth, maxRtt, queueSizeBytes,
                 queueSizePackets, nSender, flow_infos, defaults, nodes,
                 stacks, ipv4Base, allocated, apps, totalRx, outputFile>>

\* internet.Install(routerNodes)
StackRouters ==
  /\ pc = "stackRouters" /\ status = "running"
  /\ stacks' = InternetInstall(stacks, Create("router", 2), defaults)
  /\ i' = 0
  /\ pc' = "stackSet"
  /\ UNCHANGED <<status, flows, bdpNum, bandwidth, maxRtt, queueSizeBytes,
                 queueSizePackets, nSender, flow_infos, defaults, nodes, p2p,
                 links, ipv4Base, allocated, apps, totalRx, outputFile>>

\* the switch of one iteration of the stack loop
StackSetDefault ==
  /\ pc = "stackSet" /\ status = "running" /\ i < nSender
  /\ defaults' = [defaults EXCEPT
                    !.SocketType = SocketTypeFor(flow_infos[i + 1].prot)]
  /\ pc' = "stackInstall"
  /\ UNCHANGED <<status, flows, bdpNum, bandwidth, maxRtt, queueSizeBytes,
                 queueSizePackets, nSender, flow_infos, i, nodes, p2p, links,
                 stacks, ipv4Base, allocated, apps, totalRx, outputFile>>

\* the two internet.Install calls of one iteration of the stack loop
StackInstall ==
  /\ pc = "stackInstall" /\ status = "running"
  /\ stacks' = InternetInstall(stacks, {<<"sender", i>>, <<"receiver", i>>},
                               defaults)
  /\ i' = IF i + 1 < nSender THEN i + 1 ELSE 0
  /\ pc' = IF i + 1 < nSender THEN "stackSet" ELSE "addrRouters"
  /\ UNCHANGED <<status, flows, bdpNum, bandwidth, maxRtt, queueSizeBytes,
                 queueSizePackets, nSender, flow_infos, defaults, nodes, p2p,
                 links, ipv4Base, allocated, apps, totalRx, outputFile>>

\* ipv4.SetBase("172.16.1.0"), ipv4.Assign(routerDevices)
AssignRouters ==
  /\ pc = "addrRouters" /\ status = "running"
  /\ ipv4Base' = Ipv4Parse(<<172, 16, 1, 0>>)
  /\ links' = Ipv4Assign(links, 1, ipv4Base', defaults)
  /\ allocated' = Append(allocated, [link |-> 1, subnet |-> ipv4Base'])
  /\ i' = 0
  /\ pc' = "addr"
  /\ UNCHANGED <<status, flows, bdpNum, bandwidth, maxRtt, queueSizeBytes,
                 queueSizePackets, nSender, flow_infos, defaults, nodes, p2p,
                 stacks, apps, totalRx, outputFile>>

\* one iteration of the address loop: left segment, then right segment
AssignFlow ==
  /\ pc = "addr" /\ status = "running" /\ i < nSender
  /\ Ipv4Parse(LeftAddr(i)) \notin AllocatedSubnets
  /\ Ipv4Parse(RightAddr(i)) \notin AllocatedSubnets
  /\ ipv4Base' = Ipv4Parse(RightAddr(i))
  /\ links' = Ipv4Assign(
                 Ipv4Assign(links, LeftLink(i), Ipv4Parse(LeftAddr(i)), defaults),
                 RightLink(i), Ipv4Parse(RightAddr(i)), defaults)
  /\ allocated' = allocated \o
        << [link |-> LeftLink(i), subnet |-> Ipv4Parse(LeftAddr(i))],
           [link |-> RightLink(i), subnet |-> Ipv4Parse(RightAddr(i))] >>
  /\ i' = IF i + 1 < nSender THEN i + 1 ELSE 0
  /\ pc' = IF i + 1 < nSender THEN "addr" ELSE "apps"
  /\ UNCHANGED <<status, flows, bdpNum, bandwidth, maxRtt, queueSizeBytes,
                 queueSizePackets, nSender, flow_infos, defaults, nodes, p2p,
                 stacks, apps, totalRx, outputFile>>

\* the same iteration when the network was handed out before: the address
\* generator ends the process with a fatal error
AssignFlowCollision ==
  /\ pc = "addr" /\ status = "running" /\ i < nSender
  /\ \/ Ipv4Parse(LeftAddr(i)) \in AllocatedSubnets
     \/ Ipv4Parse(RightAddr(i)) \in AllocatedSubnets
  /\ ipv4Base' = Ipv4Parse(LeftAddr(i))
  /\ status' = "aborted"
  /\ UNCHANGED <<pc, flows, bdpNum, bandwidth, maxRtt, queueSizeBytes,
                 queueSizePackets, nSender, flow_infos, i, defaults, nodes,
                 p2p, links, stacks, allocated, apps, totalRx, outputFile>>

\* one iteration of the application loop
InstallApps ==
  /\ pc = "apps" /\ status = "running" /\ i < nSender
  /\ apps' = Append(apps,
        [source |-> <<"sender", i>>, sink |-> <<"receiver", i>>,
         peer |-> links[RightLink(i)].subnet, port |-> port,
         maxBytes |-> 0, sendSize |-> PACKET_SIZE,
         start |-> START_TIME, stop |-> STOP_TIME])
  /\ i' = IF i + 1 < nSender THEN i + 1 ELSE 0
  /\ pc' = IF i + 1 < nSender THEN "apps" ELSE "run"
  /\ UNCHANGED <<status, flows, bdpNum, bandwidth, maxRtt, queueSizeBytes,
                 queueSizePackets, nSender, flow_infos, defaults, nodes, p2p,
                 links, stacks, ipv4Base, allocated, totalRx, outputFile>>

\* Simulator::Stop, Simulator::Run: the sinks end with some byte count
Run ==
  /\ pc = "run" /\ status = "running"
  /\ \E r \in RxValues : totalRx' = [k \in 1..nSender |-> r]
  /\ pc' = "open"
  /\ UNCHANGED <<status, flows, bdpNum, bandwidth, maxRtt, queueSizeBytes,
                 queueSizePackets, nSender, flow_infos, i, defaults, nodes,
                 p2p, links, stacks, ipv4Base, allocated, apps, outputFile>>

\* outputFile.open(...): the open may fail; its result is not looked at
OpenOutput ==
  /\ pc = "open" /\ status = "running"
  /\ \E ok \in BOOLEAN : outputFile' = [open |-> ok, content |-> <<>>]
  /\ i' = 0
  /\ pc' = "write"
  /\ UNCHANGED <<status, flows, bdpNum, bandwidth, maxRtt, queueSizeBytes,
                 queueSizePackets, nSender, flow_infos, defaults, nodes, p2p,
                 links, stacks, ipv4Base, allocated, apps, totalRx>>

\* one iteration of the output loop: a write to a stream that is not open
\* does nothing
WriteFlow ==
  /\ pc = "write" /\ status = "running" /\ i < nSender
  /\ outputFile' =
       IF outputFile.open
       THEN [outputFile EXCEPT
               !.content = Append(@, Throughput(totalRx[i + 1]))]
       ELSE outputFile
  /\ i' = IF i + 1 < nSender THEN i + 1 ELSE 0
  /\ pc' = IF i + 1 < nSender THEN "write" ELSE "close"
  /\ UNCHANGED <<status, flows, bdpNum, bandwidth, maxRtt, queueSizeBytes,
                 queueSizePackets, nSender, flow_infos, defaults, nodes, p2p,
                 links, stacks, ipv4Base, allocated, apps, totalRx>>

\* outputFile.close(), Simulator::Destroy(), return 0
Finish ==
  /\ pc = "close" /\ status = "running"
  /\ outputFile' = [outputFile EXCEPT !.open = FALSE]
  /\ status' = "exit0"
  /\ pc' = "done"
  /\ UNCHANGED <<flows, bdpNum, bandwidth, maxRtt, queueSizeBytes,
                 queueSizePackets, nSender, flow_infos, i, defaults, nodes,
                 p2p, links, stacks, ipv4Base, allocated, apps, totalRx>>

Next ==
  \/ Parse
  \/ ComputeQueue
  \/ DeriveFlow
  \/ DeriveFlowCrash
  \/ DeriveFlowGarbage
  \/ ConfigDefaults
  \/ CreateNodes
  \/ InstallRouterLink
  \/ InstallAccessLinks
  \/ StackRouters
  \/ StackSetDefault
  \/ StackInstall
  \/ AssignRouters
  \/ AssignFlow
  \/ AssignFlowCollision
  \/ InstallApps
  \/ Run
  \/ OpenOutput
  \/ WriteFlow
  \/ Finish

Spec == Init /\ [][Next]_vars

----------------------------------------------------------------------------
\* Positions of main() the properties speak about.

DerivationComplete == pc \notin {"parse", "queue", "derive"}

QueueComputed == pc \notin {"parse", "queue"}

TopologyBuilt ==
  pc \in {"stackRouters", "stackSet", "stackInstall", "addrRouters", "addr",
          "apps", "run", "open", "write", "close", "done"}

StacksInstalled ==
  pc \in {"addrRouters", "addr", "apps", "run", "open", "write", "close",
          "done"}

AddressingDone == pc \in {"apps", "run", "open", "write", "close", "done"}

ReachedRunning == pc \in {"apps", "run", "open", "write", "close", "done"}

KnownPattern == \A k \in 1..Len(flows) : flows[k] \in {"B", "C"}

\* the command line holds no configuration error and a flow count the RTT
\* set divides evenly
EvenValidInput ==
  /\ KnownPattern
  /\ bandwidth > 0
  /\ Len(flows) % Len(rtts) = 0

RttSetMax == CHOOSE m \in {rtts[k] : k \in 1..Len(rtts)} :
               \A k \in 1..Len(rtts) : rtts[k] <= m

----------------------------------------------------------------------------
\* C1: for every non-empty flow pattern over the two known tokens (also one
\* shorter than the RTT set) flow-plan derivation completes and yields
\* nSender = |flowPattern| entries, entry i carrying the protocol mapped from
\* flowPattern[i] and the RTT rttSet[floor(i / floor(nSender / |rttSet|))].
C1_DerivationTotal ==
  (pc # "parse" /\ KnownPattern) =>
    /\ status # "crashed"
    /\ DerivationComplete =>
         /\ nSender = Len(flows)
         /\ Len(flow_infos) = Len(flows)
         /\ \A k \in 0..(Len(flows) - 1) :
              LET g == Len(flows) \div Len(rtts) IN
              /\ g > 0
              /\ k \div g < Len(rtts)
              /\ flow_infos[k + 1].prot =
                   (IF flows[k + 1] = "B" THEN "BBR" ELSE "CUBIC")
              /\ flow_infos[k + 1].rtt = rtts[(k \div g) + 1]

\* C2: when nSender is not a multiple of |rttSet|, derivation does not
\* crash, every flow's group index stays inside [0, |rttSet|) and every flow
\* gets a value of the RTT set, the surplus flows taking the last one.
C2_UnevenStaysInRange ==
  (pc # "parse" /\ Len(flows) % Len(rtts) # 0) =>
    /\ status # "crashed"
    /\ DerivationComplete =>
         \A k \in 0..(Len(flows) - 1) :
           LET g == Len(flows) \div Len(rtts) IN
           /\ g > 0
           /\ k \div g < Len(rtts)
           /\ flow_infos[k + 1].rtt \in {rtts[j] : j \in 1..Len(rtts)}

\* the propagation delay of the path sender k -> routerLeft -> routerRight
\* -> receiver k and back
PathRtt(k) ==
  2 * (links[LeftLink(k)].delay + links[1].delay + links[RightLink(k)].delay)

\* C3: in the built topology the round-trip propagation delay of every
\* flow's path equals the flow's assigned RTT, each access link having delay
\* RTT / 2 (stated for inputs without configuration error whose flow count
\* the RTT set divides).
C3_PathRttIsAssignedRtt ==
  (TopologyBuilt /\ EvenValidInput) =>
    \A k \in 0..(nSender - 1) :
      /\ links[LeftLink(k)].delay = flow_infos[k + 1].rtt \div 2
      /\ links[RightLink(k)].delay = flow_infos[k + 1].rtt \div 2
      /\ PathRtt(k) = flow_infos[k + 1].rtt

\* C4: for positive bandwidth and multiplier the queue capacity equals
\* floor(bdp * bandwidth * max(rttSet) * 1000 / 8 / packetSize), computed
\* from the values the command line set; bdp = 2, bandwidth = 20 gives 400.
C4_QueueCapacity ==
  (QueueComputed /\ bandwidth > 0 /\ bdpNum > 0) =>
    /\ queueSizePackets =
         (bdpNum * bandwidth * RttSetMax * 1000) \div (8 * BdpDen * 1000)
    /\ (bdpNum = 2 * BdpDen /\ bandwidth = 20) => queueSizePackets = 400

\* C4 witness: a run with non-default bdp (1/BdpDen) and bandwidth (3) whose
\* byte capacity is no multiple of the packet size
C4_Witness ==
  /\ QueueComputed
  /\ bdpNum = 1 /\ bandwidth = 3
  /\ queueSizeBytes % 1000 # 0
  /\ queueSizePackets > 0

\* the links that carry a queue (device queue or queue disc) of the
\* computed capacity
CapacityQueues ==
  {l \in 1..Len(links) :
     links[l].queueMax = queueSizePackets \/ links[l].qdisc = queueSizePackets}

\* C5: after construction the computed capacity is the capacity of the queue
\* of the router-to-router link and of no access link's queue (stated for
\* inputs without configuration error whose flow count the RTT set divides).
C5_OnlyBottleneckQueue ==
  (AddressingDone /\ EvenValidInput) => CapacityQueues = {1}

ConfigError == ~KnownPattern \/ bandwidth <= 0

\* C6: an unknown token in the flow pattern or a non-positive bandwidth is
\* detected before any node or link is created, and the run does not proceed
\* to Running (stated for flow counts the RTT set divides).
C6_ConfigErrorsFatalEarly ==
  (pc # "parse" /\ ConfigError /\ Len(flows) % Len(rtts) = 0) =>
    /\ nodes = {}
    /\ links = <<>>
    /\ ~ReachedRunning

\* C7: the run never ends with a success status while the per-flow
\* throughput values were not persisted (stated for inputs without
\* configuration error whose flow count the RTT set divides).
C7_NoSilentReportLoss ==
  (pc = "done" /\ status = "exit0" /\ EvenValidInput) =>
    Len(outputFile.content) = nSender

\* C8: every link receives its own subnet, different from every other
\* link's, for every nSender >= 1; the router-to-router segment is allocated
\* first, then the access segments in increasing flow index.
C8_DistinctSubnetsInOrder ==
  /\ status # "aborted"
  /\ \A a, b \in 1..Len(allocated) :
       a # b => allocated[a].subnet # allocated[b].subnet
  /\ \A a \in 1..Len(allocated) : allocated[a].link = a
  /\ AddressingDone =>
       /\ Len(allocated) = Len(links)
       /\ \A l \in 1..Len(links) : links[l].subnet # <<>>

\* C9: construction creates 2 + 2*nSender nodes (2 routers, nSender senders,
\* nSender receivers) and 1 + 2*nSender links: the router-router link and,
\* per flow, sender i - routerLeft and routerRight - receiver i.
C9_NodeAndLinkCount ==
  TopologyBuilt =>
    /\ nSender >= 1
    /\ Cardinality(nodes) = 2 + 2 * nSender
    /\ Cardinality({n \in nodes : n[1] = "router"}) = 2
    /\ Cardinality({n \in nodes : n[1] = "sender"}) = nSender
    /\ Cardinality({n \in nodes : n[1] = "receiver"}) = nSender
    /\ Len(links) = 1 + 2 * nSender
    /\ {l \in 1..Len(links) :
          links[l].a = <<"router", 0>> /\ links[l].b = <<"router", 1>>} = {1}
    /\ \A k \in 0..(nSender - 1) :
         /\ Cardinality({l \in 1..Len(links) :
               links[l].a = <<"sender", k>> /\ links[l].b = <<"router", 0>>}) = 1
         /\ Cardinality({l \in 1..Len(links) :
               links[l].a = <<"router", 1>> /\ links[l].b = <<"receiver", k>>}) = 1
    /\ \A l \in 1..Len(links) : links[l].a \in nodes /\ links[l].b \in nodes

\* C9 witness: a built topology of four flows
C9_Witness == TopologyBuilt /\ nSender = 4 /\ Len(links) = 9

\* the socket type the flow pattern assigns to flow k
PatternSocketType(k) ==
  IF flows[k + 1] = "B" THEN "ns3::TcpBbr" ELSE "ns3::TcpCubic"

\* C10: the stack installed on sender i and receiver i carries the variant
\* the flow pattern assigns to flow i, from the installation on (a later
\* default does not change it), and after the loop every flow has its stacks.
C10_StackVariantPerFlow ==
  /\ \A k \in 0..(nSender - 1) :
       /\ <<"sender", k>> \in DOMAIN stacks =>
            stacks[<<"sender", k>>] = PatternSocketType(k)
       /\ <<"receiver", k>> \in DOMAIN stacks =>
            stacks[<<"receiver", k>>] = PatternSocketType(k)
  /\ StacksInstalled =>
       \A k \in 0..(nSender - 1) :
         {<<"sender", k>>, <<"receiver", k>>} \subseteq DOMAIN stacks

\* C10 witness: the loop is over and the global default (set for the last
\* flow) differs from the variant installed for flow 0
C10_Witness ==
  /\ StacksInstalled
  /\ nSender >= 2
  /\ stacks[<<"sender", 0>>] = "ns3::TcpBbr"
  /\ stacks[<<"receiver", 0>>] = "ns3::TcpBbr"
  /\ defaults.SocketType = "ns3::TcpCubic"

====
